---- MODULE Spec2Model ----
(***************************************************************************)
(* itis::HashTable: a separate-chaining hash table from int keys to        *)
(* string values (include/hash_table.hpp and its implementation file).     *)
(*                                                                         *)
(* A bucket is a sequence of <<key, value>> pairs; buckets_ is a sequence  *)
(* of buckets.  C++ bucket index i is position i + 1 of buckets_.          *)
(***************************************************************************)
EXTENDS Integers, Sequences, FiniteSets, TLC

(* ------------------------------ bounds -------------------------------- *)
NumNegKeys == 1
MaxKey == 4
MaxNumKeys == 2
MaxCapacity == 8
MaxInitCapacity == 2

Keys == (0 - NumNegKeys)..MaxKey
Values == {"a", "b"}

\* load factors as <<numerator, denominator>>.  They are dyadic, so each is an
\* exactly representable double and  double(n) / c >= load_factor  decides as
\* the exact comparison  n * den >= num * c  does (rounding is monotone).
LoadFactors == {<<1, 2>>, <<3, 4>>, <<1, 1>>}

(* ------------------------- program constants -------------------------- *)
\* a growth coefficient of three
kGrowthCoefficientThree == 2 + 1

kGrowthCoefficient == 2

\* std::nullopt
NotFound == "nullopt"

\* What an access to buckets_[index] with index outside 0..size-1 (undefined
\* behaviour) can do: the process dies on the wild access, or the access
\* lands in memory outside the table: a read sees no matching pair there, a
\* push_back writes outside every bucket.
UBOutcomes == {"crash", "stray"}

\* the outcomes of an access: the undefined ones if it is out of bounds
OutcomesOf(out_of_bounds) == IF out_of_bounds THEN UBOutcomes ELSE {"defined"}

VARIABLES
  buckets_,          \* std::vector<Bucket>
  num_keys_,         \* int
  load_factor_,      \* const double, as <<num, den>>
  crashed,           \* the process was killed by an out-of-bounds access
  last,              \* the last call: [op, key, value, result]
  ref,               \* reference map driven by the same calls (history)
  initial_capacity,  \* the constructor's capacity argument (history)
  onlyInserts,       \* every call so far was a Put of a key never put before
  ascending          \* the calls so far were Put(0, _), Put(1, _), ... in this order

vars == <<buckets_, num_keys_, load_factor_, crashed, last, ref,
          initial_capacity, onlyInserts, ascending>>

(* ------------------------------ helpers ------------------------------- *)
\* utils::hash: C++ % truncates toward zero, so the remainder of a negative
\* key is negative or zero.
hash(key, table_size) ==
  IF key >= 0 THEN key % table_size ELSE 0 - ((0 - key) % table_size)

\* whether buckets[index] is an element of the vector
InRange(index, buckets) == index \in 0..(Len(buckets) - 1)

\* the loop of Search over one bucket: the value of the first pair with the key
SearchBucket(bucket, key) ==
  LET hits == {i \in 1..Len(bucket) : bucket[i][1] = key}
  IN IF hits = {} THEN NotFound
     ELSE bucket[CHOOSE i \in hits : \A j \in hits : i <= j][2]

\* HashTable::Search on the bucket array `buckets`; ub is the outcome taken if
\* the index is out of bounds.
SearchResult(buckets, key, ub) ==
  LET index == hash(key, Len(buckets))
  IN IF InRange(index, buckets) THEN SearchBucket(buckets[index + 1], key)
     ELSE IF ub = "crash" THEN "crash" ELSE NotFound

\* the update loop of Put: every pair of the bucket with this key gets the value
SetValue(bucket, key, value) ==
  [i \in 1..Len(bucket) |->
     IF bucket[i][1] = key THEN <<key, value>> ELSE bucket[i]]

\* a Put that links the new pair at the front of the chain
PushFront(buckets, index, pair) ==
  IF InRange(index, buckets)
  THEN [buckets EXCEPT ![index + 1] = <<pair>> \o @]
  ELSE buckets

\* buckets_[index].push_back(pair); out of bounds the write lands outside
PushBack(buckets, index, pair) ==
  IF InRange(index, buckets)
  THEN [buckets EXCEPT ![index + 1] = Append(@, pair)]
  ELSE buckets

\* the growth condition of Put
NeedsGrowth(n, cap, lf) == n * lf[2] >= lf[1] * cap

RECURSIVE Flatten(_)
\* all pairs, bucket by bucket in index order, each bucket front to back
Flatten(buckets) ==
  IF buckets = <<>> THEN <<>> ELSE Head(buckets) \o Flatten(Tail(buckets))

IsKeyOf(key, cap, j) == hash(key, cap) = j

\* a growth that enlarges the array and leaves every pair in its old bucket
RehashInPlace(buckets, new_cap) ==
  [j \in 1..new_cap |-> IF j <= Len(buckets) THEN buckets[j] ELSE <<>>]

\* the rehash loop of Put: a fresh array of new_cap buckets, filled with the
\* pairs in iteration order; a pair whose new index is out of bounds is not
\* in any bucket of the new array
Rehash(buckets, new_cap) ==
  [j \in 1..new_cap |->
     SelectSeq(Flatten(buckets), LAMBDA p : IsKeyOf(p[1], new_cap, j - 1))]

\* whether the rehash loop indexes newBuckets out of bounds
RehashOutOfRange(buckets, new_cap) ==
  \E i \in 1..Len(Flatten(buckets)) :
     ~(hash(Flatten(buckets)[i][1], new_cap) \in 0..(new_cap - 1))

\* a Remove that drops the whole chain instead of the one pair
EraseKeyWholeBucket(bucket, key) == <<>>

\* list::erase of the first pair with the key
EraseKey(bucket, key) ==
  LET hits == {i \in 1..Len(bucket) : bucket[i][1] = key}
      at == CHOOSE i \in hits : \A j \in hits : i <= j
  IN IF hits = {} THEN bucket
     ELSE SubSeq(bucket, 1, at - 1) \o SubSeq(bucket, at + 1, Len(bucket))

(* ----------------------------- accessors ------------------------------ *)
size == num_keys_
capacity == Len(buckets_)
empty == size = 0
load_factor == load_factor_
keys == {Flatten(buckets_)[i][1] : i \in 1..Len(Flatten(buckets_))}
values == [i \in 1..Len(Flatten(buckets_)) |-> Flatten(buckets_)[i][2]]

(* ------------------------------ actions ------------------------------- *)
\* the constructor with valid arguments
Init ==
  /\ \E cap \in 1..MaxInitCapacity :
        /\ buckets_ = [i \in 1..cap |-> <<>>]
        /\ initial_capacity = cap
  /\ load_factor_ \in LoadFactors
  /\ num_keys_ = 0
  /\ crashed = FALSE
  /\ last = [op |-> "New", key |-> 0, value |-> "", result |-> "void"]
  /\ ref = [k \in Keys |-> NotFound]
  /\ onlyInserts = TRUE
  /\ ascending = TRUE

Put(key, value) ==
  /\ ~crashed
  /\ \E ub \in OutcomesOf(~InRange(hash(key, capacity), buckets_)) :
     LET index == hash(key, capacity)
         found == SearchResult(buckets_, key, ub)
         b1 == IF found \in Values
               THEN [buckets_ EXCEPT ![index + 1] = SetValue(@, key, value)]
               ELSE PushBack(buckets_, index, <<key, value>>)
         n1 == IF found \in Values THEN num_keys_ ELSE num_keys_ + 1
         grow == NeedsGrowth(n1, Len(b1), load_factor_)
         new_cap == Len(b1) * kGrowthCoefficient
     IN /\ n1 <= MaxNumKeys
        /\ grow => new_cap <= MaxCapacity
        /\ ref' = [ref EXCEPT ![key] = value]
        /\ onlyInserts' = (onlyInserts /\ ref[key] = NotFound)
        /\ ascending' = (ascending /\ key = Cardinality({k \in Keys : ref[k] # NotFound}))
        /\ UNCHANGED <<load_factor_, initial_capacity>>
        /\ IF found = "crash"
           THEN /\ crashed' = TRUE
                /\ last' = [op |-> "Put", key |-> key, value |-> value,
                            result |-> "crash"]
                /\ UNCHANGED <<buckets_, num_keys_>>
           ELSE /\ num_keys_' = n1
                /\ \E ubr \in OutcomesOf(grow /\ RehashOutOfRange(b1, new_cap)) :
                   IF ubr = "crash"
                   THEN /\ crashed' = TRUE
                        /\ buckets_' = b1
                        /\ last' = [op |-> "Put", key |-> key, value |-> value,
                                    result |-> "crash"]
                   ELSE /\ crashed' = FALSE
                        /\ buckets_' = IF grow THEN Rehash(b1, new_cap) ELSE b1
                        /\ last' = [op |-> "Put", key |-> key, value |-> value,
                                    result |-> "void"]

Remove(key) ==
  /\ ~crashed
  /\ \E ub \in OutcomesOf(~InRange(hash(key, capacity), buckets_)) :
     LET index == hash(key, capacity)
         found == SearchResult(buckets_, key, ub)
     IN /\ ref' = [ref EXCEPT ![key] = NotFound]
        /\ onlyInserts' = FALSE
        /\ ascending' = FALSE
        /\ UNCHANGED <<load_factor_, initial_capacity>>
        /\ last' = [op |-> "Remove", key |-> key, value |-> "", result |-> found]
        /\ crashed' = (found = "crash")
        /\ IF found \in Values
           THEN /\ buckets_' = [buckets_ EXCEPT ![index + 1] = EraseKey(@, key)]
                /\ num_keys_' = num_keys_ - 1
           ELSE UNCHANGED <<buckets_, num_keys_>>

Search(key) ==
  /\ ~crashed
  /\ \E ub \in OutcomesOf(~InRange(hash(key, capacity), buckets_)) :
     LET found == SearchResult(buckets_, key, ub)
     IN /\ last' = [op |-> "Search", key |-> key, value |-> "", result |-> found]
        /\ crashed' = (found = "crash")
  /\ onlyInserts' = FALSE
  /\ ascending' = FALSE
  /\ UNCHANGED <<buckets_, num_keys_, load_factor_, ref, initial_capacity>>

\* ContainsKey is Search(key).has_value()
ContainsKey(key) ==
  /\ ~crashed
  /\ \E ub \in OutcomesOf(~InRange(hash(key, capacity), buckets_)) :
     LET found == SearchResult(buckets_, key, ub)
     IN /\ last' = [op |-> "ContainsKey", key |-> key, value |-> "",
                    result |-> IF found = "crash" THEN "crash"
                               ELSE IF found # NotFound THEN "true" ELSE "false"]
        /\ crashed' = (found = "crash")
  /\ onlyInserts' = FALSE
  /\ ascending' = FALSE
  /\ UNCHANGED <<buckets_, num_keys_, load_factor_, ref, initial_capacity>>

Next ==
  \/ \E key \in Keys, value \in Values : Put(key, value)
  \/ \E key \in Keys : Remove(key)
  \/ \E key \in Keys : Search(key)
  \/ \E key \in Keys : ContainsKey(key)

Spec == Init /\ [][Next]_vars

(* --------------------------- construction ----------------------------- *)
\* constructor arguments: capacities and load factors, valid and invalid
CapacityArgs == (0 - MaxInitCapacity)..MaxInitCapacity
LoadFactorArgs == LoadFactors \cup {<<0 - 1, 100>>, <<0, 1>>, <<101, 100>>}

\* capacity <= 0
InvalidCapacity(cap) == cap <= 0

\* a check that lets the load factor 0.0 through
InvalidLoadFactorZeroAllowed(lf) == lf[1] < 0 \/ lf[1] > lf[2]

\* load_factor <= 0.0 || load_factor > 1.0
InvalidLoadFactor(lf) == lf[1] <= 0 \/ lf[1] > lf[2]

\* a constructor call about to run: its arguments are in initial_capacity and
\* load_factor_ (the member is initialised from the argument before the checks)
InitNew ==
  /\ initial_capacity \in CapacityArgs
  /\ load_factor_ \in LoadFactorArgs
  /\ buckets_ = <<>>
  /\ num_keys_ = 0
  /\ crashed = FALSE
  /\ last = [op |-> "New", key |-> 0, value |-> "", result |-> "pending"]
  /\ ref = [k \in Keys |-> NotFound]
  /\ onlyInserts = TRUE
  /\ ascending = TRUE

\* HashTable::HashTable: throws std::logic_error, or resizes buckets_
HashTable ==
  /\ last.result = "pending"
  /\ IF InvalidCapacity(initial_capacity) \/ InvalidLoadFactor(load_factor_)
     THEN /\ last' = [last EXCEPT !.result = "logic_error"]
          /\ UNCHANGED buckets_
     ELSE /\ last' = [last EXCEPT !.result = "void"]
          /\ buckets_' = [i \in 1..initial_capacity |-> <<>>]
  /\ UNCHANGED <<num_keys_, load_factor_, crashed, ref, initial_capacity,
                 onlyInserts, ascending>>

\* a table exists: the constructor returned without throwing
Constructed == ~(last.result \in {"pending", "logic_error"})

NextNew ==
  \/ HashTable
  \/ \E key \in Keys, value \in Values : Constructed /\ Put(key, value)
  \/ \E key \in Keys : Constructed /\ Remove(key)
  \/ \E key \in Keys : Constructed /\ Search(key)
  \/ \E key \in Keys : Constructed /\ ContainsKey(key)

SpecNew == InitNew /\ [][NextNew]_vars

(* ------------------------- claim vocabulary --------------------------- *)
PairSet(buckets) == {Flatten(buckets)[i] : i \in 1..Len(Flatten(buckets))}
KeySet(buckets) == {p[1] : p \in PairSet(buckets)}
PositionOf(buckets, key) ==
  CHOOSE i \in 1..Len(Flatten(buckets)) : Flatten(buckets)[i][1] = key
RefKeys == {k \in Keys : ref[k] # NotFound}
PutOfNewKey == last'.op = "Put" /\ ~(last'.key \in KeySet(buckets_))
PutOfStoredKey == last'.op = "Put" /\ last'.key \in KeySet(buckets_)
RemoveOfStoredKey == last'.op = "Remove" /\ last'.key \in KeySet(buckets_)
\* the table answers every Search as the reference map does, and counts its keys
AgreesWithReference ==
  /\ ~crashed
  /\ \A ub \in UBOutcomes, k \in Keys : SearchResult(buckets_, k, ub) = ref[k]
  /\ size = Cardinality(RefKeys)
RemoveOfAbsentKey == last'.op = "Remove" /\ ~(last'.key \in KeySet(buckets_))

\* C1: Put, Search, Remove and ContainsKey never fail for any integer key,
\* negative keys included: the bucket index the call computes, key mod the
\* current capacity, is in 0..capacity-1 and the call completes normally.
C1_CallsNeverFail ==
  [][last'.op \in {"Put", "Search", "Remove", "ContainsKey"} =>
       /\ hash(last'.key, capacity) \in 0..(capacity - 1)
       /\ last'.result # "crash"
       /\ ~crashed']_vars

\* C2: immediately after every Put that inserts a new key (growth included),
\* size() / capacity() < load_factor().
C2_RatioBelowLoadFactorAfterInsert ==
  [][(PutOfNewKey /\ ~crashed') =>
       size' * load_factor_[2] < load_factor_[1] * capacity']_vars

\* C3: a Put of a key that is already stored performs no resize: size() and
\* capacity() are the same after the call as before it.
C3_UpdateKeepsSizeAndCapacity ==
  [][PutOfStoredKey => (size' = size /\ capacity' = capacity)]_vars

\* C4: a Put of a stored key changes values() only at the key's position: the
\* sequence afterwards is the sequence before with that one element replaced
\* by the new value, and size() is unchanged.
C4_UpdateChangesOneValue ==
  [][(PutOfStoredKey /\ ~crashed') =>
       /\ values' = [values EXCEPT ![PositionOf(buckets_, last'.key)] = last'.value]
       /\ size' = size]_vars

\* C5: a Put that inserts a new key grows the table exactly when
\* size() / capacity() >= load_factor() after the insert, growth makes
\* capacity() exactly twice the previous capacity; so from an empty table of
\* capacity c, when the ceil(c * loadFactor)-th distinct key has been inserted
\* capacity() is 2c, and with load factor 1 and c <= n < 2c distinct keys
\* inserted capacity() = 2c and size() = n.
C5_GrowthExactlyAtLoadFactor ==
  [][(last'.op = "Put" /\ num_keys_' = num_keys_ + 1) =>
       /\ ~crashed'
       /\ capacity' = (IF NeedsGrowth(num_keys_', capacity, load_factor_)
                       THEN 2 * capacity ELSE capacity)
       /\ (/\ onlyInserts'
           /\ NeedsGrowth(size', initial_capacity, load_factor_)
           /\ ~NeedsGrowth(size' - 1, initial_capacity, load_factor_))
          => capacity' = 2 * initial_capacity
       /\ (/\ onlyInserts'
           /\ load_factor_ = <<1, 1>>
           /\ initial_capacity <= Cardinality(RefKeys')
           /\ Cardinality(RefKeys') < 2 * initial_capacity)
          => (capacity' = 2 * initial_capacity /\ size' = Cardinality(RefKeys'))
    ]_vars

\* C6: growth preserves the contents: for every Put that triggers growth the
\* pairs stored after the call are exactly the pairs stored after the insert,
\* none duplicated or missing, size() is unchanged by the growth step, and
\* Search(k) returns the same value for every inserted key k.
C6_GrowthPreservesContents ==
  [][(last'.op = "Put" /\ NeedsGrowth(num_keys_', capacity, load_factor_)) =>
       LET afterInsert ==
             {p \in PairSet(buckets_) : p[1] # last'.key}
               \cup {<<last'.key, last'.value>>}
       IN /\ ~crashed'
          /\ PairSet(buckets_') = afterInsert
          /\ Len(Flatten(buckets_')) = Cardinality(afterInsert)
          /\ size' = Cardinality(afterInsert)
          /\ \A p \in afterInsert :
                SearchResult(buckets_', p[1], "crash") = p[2]]_vars

\* C7: after any sequence of Put and Remove calls the table agrees with a
\* reference map driven by the same calls: Search(k) returns the value of the
\* most recent Put(k, v) not followed by Remove(k), not-found otherwise, and
\* size() is the number of keys of the reference map.
C7_AgreesWithReferenceMap ==
  [][last'.op \in {"Put", "Remove"} => AgreesWithReference']_vars

\* C8: n distinct keys put into an empty table with n < capacity * loadFactor
\* trigger no resize: capacity() is the initial capacity, size() = n and
\* Search(k_i) returns the value put for k_i.
C8_RoundTripWithinLoadFactor ==
  (/\ onlyInserts
   /\ Cardinality(RefKeys) * load_factor_[2] < load_factor_[1] * initial_capacity)
  => /\ ~crashed
     /\ capacity = initial_capacity
     /\ size = Cardinality(RefKeys)
     /\ \A ub \in UBOutcomes, k \in RefKeys :
           SearchResult(buckets_, k, ub) = ref[k]

\* C9: Remove(key) of a stored key returns the value associated with it,
\* makes ContainsKey(key) false, decrements size() by exactly 1 and leaves
\* every other stored key with its value.
C9_RemoveStoredKey ==
  [][RemoveOfStoredKey =>
       LET key == last'.key
           stored == CHOOSE p \in PairSet(buckets_) : p[1] = key
       IN /\ ~crashed'
          /\ last'.result = stored[2]
          /\ \A ub \in UBOutcomes : SearchResult(buckets_', key, ub) = NotFound
          /\ size' = size - 1
          /\ PairSet(buckets_') = PairSet(buckets_) \ {stored}
          /\ \A k \in KeySet(buckets_) \ {key}, ub \in UBOutcomes :
                SearchResult(buckets_', k, ub) = SearchResult(buckets_, k, ub)
    ]_vars

\* a stored key was removed while another key stayed stored
C9_Witness ==
  /\ last.op = "Remove"
  /\ last.result \in Values
  /\ ~crashed
  /\ KeySet(buckets_) # {}
  /\ \E i \in 1..capacity : Len(buckets_[i]) >= 1 /\ hash(last.key, capacity) = i - 1

\* C10: Remove(key) of a key that is not stored (an empty table included)
\* returns not-found and leaves size(), capacity() and the contents and order
\* of every bucket as they were.
C10_RemoveAbsentKey ==
  [][RemoveOfAbsentKey =>
       /\ last'.result = NotFound
       /\ ~crashed'
       /\ buckets_' = buckets_
       /\ num_keys_' = num_keys_]_vars

\* C11: construction succeeds exactly when capacity > 0 and 0 < loadFactor <= 1
\* and then yields a table with empty() true, size() 0 and capacity() equal to
\* the requested capacity; otherwise it fails with an error and no table is
\* produced.
C11_ConstructionValidity ==
  [][(last.result = "pending" /\ last'.result # "pending") =>
       IF /\ initial_capacity > 0
          /\ 0 < load_factor_[1]
          /\ load_factor_[1] <= load_factor_[2]
       THEN /\ last'.result = "void"
            /\ Constructed'
            /\ empty'
            /\ size' = 0
            /\ capacity' = initial_capacity
            /\ \A i \in 1..capacity' : buckets_'[i] = <<>>
       ELSE /\ last'.result = "logic_error"
            /\ ~Constructed'
            /\ buckets_' = <<>>]_vars

\* a construction with a valid capacity was refused for its load factor
C11_Witness ==
  /\ last.op = "New"
  /\ last.result = "logic_error"
  /\ initial_capacity > 0
  /\ load_factor_ = <<0, 1>>

\* the bucket (1-based) that holds the key
BucketOf(buckets, key) ==
  CHOOSE j \in 1..Len(buckets) : \E i \in 1..Len(buckets[j]) : buckets[j][i][1] = key

\* C12: values() lists the values bucket by bucket in increasing index and,
\* within a bucket, in the order its stored keys were inserted: a newly
\* inserted key is the last of its bucket, and updates, removals and growth
\* keep the relative order of the keys that share a bucket; so putting keys
\* 0..n-1 in ascending order into an empty table, with or without growth,
\* makes values() the values in insertion order.
C12_ValuesInInsertionOrder ==
  [][/\ buckets_' # buckets_ =>
          LET before == KeySet(buckets_)
              after == KeySet(buckets_')
          IN /\ \A k \in after \ before :
                   LET bucket == buckets_'[BucketOf(buckets_', k)]
                   IN bucket[Len(bucket)][1] = k
             /\ \A k1, k2 \in after \cap before :
                   (k1 # k2 /\ BucketOf(buckets_', k1) = BucketOf(buckets_', k2)) =>
                     /\ BucketOf(buckets_, k1) = BucketOf(buckets_, k2)
                     /\ (PositionOf(buckets_', k1) < PositionOf(buckets_', k2))
                          <=> (PositionOf(buckets_, k1) < PositionOf(buckets_, k2))
     /\ ascending' =>
          /\ ~crashed'
          /\ values' = [i \in 1..Cardinality(RefKeys') |-> ref'[i - 1]]
    ]_vars

\* a Put grew the table and its key shares a bucket with an older key
C12_Witness ==
  /\ last.op = "Put"
  /\ ~crashed
  /\ capacity > initial_capacity
  /\ last.key \in KeySet(buckets_)
  /\ Len(buckets_[BucketOf(buckets_, last.key)]) >= 2

\* C13: for every key and every reachable state ContainsKey(k) is true exactly
\* when Search(k) yields a value, and neither call changes size(), capacity()
\* or any bucket.
C13_ContainsKeyIsSearchHasValue ==
  [][last'.op \in {"Search", "ContainsKey"} =>
       /\ ~crashed'
       /\ last'.op = "Search" => last'.result \in Values \cup {NotFound}
       /\ last'.op = "ContainsKey" =>
            /\ last'.result \in {"true", "false"}
            /\ \A ub \in UBOutcomes :
                  (last'.result = "true")
                    <=> (SearchResult(buckets_, last'.key, ub) \in Values)
       /\ buckets_' = buckets_
       /\ num_keys_' = num_keys_]_vars

\* C14: in every reachable state every key is stored at most once in the whole
\* table and each stored key lies in the bucket hash(key, current capacity).
C14_KeysUniqueAndInTheirBucket ==
  /\ \A j \in 1..capacity : \A i \in 1..Len(buckets_[j]) :
        hash(buckets_[j][i][1], capacity) = j - 1
  /\ \A i1, i2 \in 1..Len(Flatten(buckets_)) :
        Flatten(buckets_)[i1][1] = Flatten(buckets_)[i2][1] => i1 = i2

\* the table has grown and holds two keys, one of them away from bucket 0
C14_Witness ==
  /\ capacity > initial_capacity
  /\ Cardinality(keys) >= 2
  /\ \E j \in 2..capacity : Len(buckets_[j]) >= 1
  /\ ~crashed

\* C15: in every reachable state size() equals the sum of the lengths of all
\* buckets.
C15_SizeIsSumOfBucketLengths == size = Len(Flatten(buckets_))

\* C16: capacity() never decreases and changes only inside Put; one Put leaves
\* it unchanged or multiplies it by exactly 2; so capacity() is always
\* initialCapacity * 2^k for some k >= 0.
C16_CapacityOnlyDoublesInPut ==
  [][/\ capacity' >= capacity
     /\ last'.op # "Put" => capacity' = capacity
     /\ last'.op = "Put" => capacity' \in {capacity, 2 * capacity}
     /\ \E k \in 0..MaxCapacity : capacity' = initial_capacity * 2^k]_vars

\* the table has doubled and a later Remove took a key out of it
C16_Witness ==
  /\ capacity >= 2 * initial_capacity
  /\ last.op = "Remove"
  /\ last.result \in Values

\* C17: in every reachable state keys() is exactly the set of keys k for which
\* ContainsKey(k) is true, its cardinality equals size(), and values() has
\* length size().
C17_KeysAndValuesMatchSize ==
  /\ \A k \in Keys, ub \in UBOutcomes :
        (k \in keys) <=> (SearchResult(buckets_, k, ub) \in Values)
  /\ Cardinality(keys) = size
  /\ Len(values) = size

====
